---- MODULE Spec2Model ----
(***************************************************************************)
(* Model of the multi-sensor background detection hook                     *)
(* (useBackgroundDetection) of sentinel-whisper-alert.                     *)
(*                                                                         *)
(* One slot per startBackgroundDetection call: the call's closure          *)
(* (settings and isBackgroundActive of the render it was created in), its  *)
(* position, and the recognition engine, devicemotion listener and camera  *)
(* stream it created.  The host (browser) keeps every engine, listener and *)
(* stream alive whether or not the hook still holds a reference to it.     *)
(* A call that has returned and whose engine, listener and stream can act  *)
(* no more is forgotten, and its slot serves a later call.                 *)
(* Continuations that follow an await of an already settled value run as   *)
(* microtasks and are part of the step that precedes them; a call only     *)
(* yields to other events at a permission request of the host.             *)
(***************************************************************************)
EXTENDS Integers, Sequences, FiniteSets, TLC

\* ------------------------------------------------------------------ bounds
MaxCalls == 2       \* startBackgroundDetection calls whose closures are alive at once
MaxPending == 1     \* calls suspended at a permission request at once
MaxResults == 1     \* results in one engine's accumulated result list
MaxMounts == 3      \* mounts of the component in one page lifetime
MaxShown == 2       \* notifications the service worker shows
MaxTimers == 2      \* countdown intervals and deactivation timeouts alive at once

\* ------------------------------------------------------- program constants
RestartDelay == 1000    \* setTimeout delay of the onend restart
DebounceMs == 2000      \* two shake triggers are more than this apart
TickMs == 1000          \* granularity of the modelled clock
\* the lengths of time that pass in one step of the clock
Steps == { TickMs, TickMs + TickMs \div 10 }

Null == 0               \* null: no settings, an empty ref
Slots == 1..MaxCalls

\* ----------------------------------------------------------------- inputs
Cfg(v, m, b, g, ms, kw) ==
  [voiceEnabled |-> v, blinkEnabled |-> b, gestureEnabled |-> g,
   motionEnabled |-> m, voiceSensitivity |-> 70, motionSensitivity |-> ms,
   emergencyKeywords |-> kw]

KwHi == << <<"h", "i">> >>
KwMixed == << <<"H", "I">>, <<"i">> >>
\* ["help", "emergency"]
KwHelp == << <<"h", "e", "l", "p">>,
            <<"e", "m", "e", "r", "g", "e", "n", "c", "y">> >>

\* the settings values explored; a settings value is named by its index
SettingsTable ==
  << Cfg(TRUE, TRUE, TRUE, FALSE, 60, KwHi),
     Cfg(FALSE, FALSE, FALSE, FALSE, 60, KwHi),
     Cfg(TRUE, FALSE, FALSE, FALSE, 60, KwMixed),
     Cfg(FALSE, TRUE, FALSE, FALSE, 90, << >>),
     Cfg(TRUE, FALSE, FALSE, FALSE, 60, << >>),
     Cfg(FALSE, FALSE, FALSE, TRUE, 60, KwHi),
     Cfg(FALSE, TRUE, FALSE, FALSE, 60, << >>),
     Cfg(FALSE, FALSE, FALSE, FALSE, 90, << >>),
     Cfg(TRUE, TRUE, FALSE, FALSE, 60, KwHelp),
     [Cfg(TRUE, TRUE, FALSE, FALSE, 60, KwHelp) EXCEPT !.voiceSensitivity = 10],
     Cfg(TRUE, FALSE, TRUE, FALSE, 60, KwHi),
     Cfg(TRUE, TRUE, FALSE, FALSE, 10, KwHi),
     Cfg(TRUE, TRUE, FALSE, FALSE, 55, KwHi),
     Cfg(TRUE, TRUE, FALSE, FALSE, 100, KwHi) >>
SettingsSet == 1..Len(SettingsTable)
\* the settings values that enable the voice channel alone, the motion
\* channel alone
VoiceOnly == { k \in SettingsSet :
                 LET c == SettingsTable[k]
                 IN  c.voiceEnabled /\ ~c.motionEnabled /\ ~c.blinkEnabled /\ ~c.gestureEnabled }
NoChannel == { k \in SettingsSet :
                 LET c == SettingsTable[k]
                 IN  ~c.voiceEnabled /\ ~c.motionEnabled /\ ~c.blinkEnabled /\ ~c.gestureEnabled }
MotionOnly == { k \in SettingsSet :
                  LET c == SettingsTable[k]
                  IN  ~c.voiceEnabled /\ c.motionEnabled /\ ~c.blinkEnabled /\ ~c.gestureEnabled }

\* one recognition result's best alternative
Pieces == { <<"H", "i">>, <<"x">> }
\* "please help me", and an utterance without a keyword
PleaseHelpMe == <<"p", "l", "e", "a", "s", "e", " ", "h", "e", "l", "p", " ", "m", "e">>
Utterances ==
  { PleaseHelpMe,
    <<"p", "l", "e", "a", "s", "e">>,
    <<"E", "m", "e", "r", "g", "e", "n", "c", "y">> }

\* DeviceMotionEvent.acceleration: absent, or a vector
NoAcc == << >>
Samples == { NoAcc, <<0, 0, 0>>, <<4, 0, 0>>, <<3, 4, 0>> }

\* samples of magnitude 0, 1, 4, 5, 9, 9 and 10, and one without a vector
ThresholdSamples ==
  { NoAcc, <<0, 0, 0>>, <<1, 0, 0>>, <<4, 0, 0>>, <<3, 4, 0>>, <<9, 0, 0>>,
    <<6, 6, 3>>, <<0, 0, 10>> }

NoStatus == [voice |-> FALSE, motion |-> FALSE, camera |-> FALSE]

\* ------------------------------------------------------------------ state
VARIABLES
  isBackgroundActive,    \* useState
  detectionStatus,       \* useState
  speechRecognitionRef,  \* useRef: Null or the slot of the engine held
  motionListenerRef,     \* useRef: Null or the slot of the listener held
  videoStreamRef,        \* useRef: Null or the slot of the stream held
  calls,                 \* slot -> the startBackgroundDetection call
  engines,               \* slot -> the SpeechRecognition object it created
  listeners,             \* slot -> the handleMotion closure it created
  streams,               \* slot -> whether the MediaStream it acquired is live
  motionGated,           \* 'requestPermission' in DeviceMotionEvent
  notifPermission,       \* Notification.permission
  mounted,               \* the component that uses the hook is mounted
  registrations,         \* navigator.serviceWorker.register calls so far
  shown,                 \* the notifications the service worker has shown
  activeTab,             \* Index: useState("dashboard")
  emergencyMode,         \* Index: useState(false)
  resets,                \* Index: pending setTimeout(..., 300000) of handleEmergency
  countdown,             \* EmergencyButton: useState(null), of the mounted button
  timers,                \* EmergencyButton: the setInterval timers alive, oldest first
  out                    \* what the last step emitted

hookVars == <<isBackgroundActive, detectionStatus, speechRecognitionRef,
              motionListenerRef, videoStreamRef>>
buttonVars == <<activeTab, emergencyMode, resets, countdown, timers>>
pageVars == <<mounted, registrations, shown, buttonVars>>
vars == <<isBackgroundActive, detectionStatus, speechRecognitionRef,
          motionListenerRef, videoStreamRef, calls, engines, listeners,
          streams, motionGated, notifPermission, mounted, registrations,
          shown, buttonVars, out>>

\* pc: where the call is suspended; cfg, active: the settings and
\* isBackgroundActive its closure holds; status: its local status object
NoCall == [pc |-> "unused", cfg |-> Null, active |-> FALSE, status |-> NoStatus]

\* timer: the delay of the armed restart timer, NoTimer: none armed;
\* denied: the engine has reported "not-allowed"
NoTimer == -1
NoEngine == [state |-> "none", results |-> << >>, timer |-> NoTimer,
             denied |-> FALSE]

\* elapsed: Date.now() - lastShakeTime, all values from LongAgo on alike
LongAgo == DebounceMs + TickMs
NoListener == [attached |-> FALSE, elapsed |-> LongAgo]

\* the last step: op the handler that ran, slot the call it belongs to
\* (0: none), arg its input (start: the settings, result: the result list,
\* motion: the acceleration), fired the number of onEmergencyDetected
\* invocations it made, toasts the toasts it made
Out(op, slot, arg, fired, toasts) ==
  [op |-> op, slot |-> slot, arg |-> arg, fired |-> fired, toasts |-> toasts]

\* countdown === null
NoCountdown == -1
\* let count = 3
CountFrom == 3

\* 'serviceWorker' in navigator: the hosts modelled have service workers
serviceWorkerInNavigator == TRUE

Init ==
  /\ isBackgroundActive = FALSE
  /\ detectionStatus = NoStatus
  /\ speechRecognitionRef = Null
  /\ motionListenerRef = Null
  /\ videoStreamRef = Null
  /\ calls = [i \in Slots |-> NoCall]
  /\ engines = [i \in Slots |-> NoEngine]
  /\ listeners = [i \in Slots |-> NoListener]
  /\ streams = [i \in Slots |-> FALSE]
  /\ motionGated \in BOOLEAN
  /\ notifPermission \in {"default", "granted"}
  /\ mounted = TRUE
  /\ registrations = IF serviceWorkerInNavigator THEN 1 ELSE 0
  /\ shown = << >>
  /\ activeTab = "dashboard"
  /\ emergencyMode = FALSE
  /\ resets = 0
  /\ countdown = NoCountdown
  /\ timers = << >>
  /\ out = Out("init", 0, 0, 0, << >>)

\* ------------------------------------------------------- voice: matching
RECURSIVE Concat(_)
\* Array.from(event.results).map(result => result[0].transcript).join('')
Concat(rs) == IF rs = << >> THEN << >> ELSE Head(rs) \o Concat(Tail(rs))

LowerChar(c) ==
  IF c = "H" THEN "h" ELSE IF c = "I" THEN "i" ELSE IF c = "E" THEN "e" ELSE c

\* String.prototype.toLowerCase
ToLower(s) == [n \in 1..Len(s) |-> LowerChar(s[n])]

\* (mutant) the transcript must be the keyword
Includes_Exact(t, k) == t = k

\* String.prototype.includes
Includes(t, k) ==
  \E o \in 0..(Len(t) - Len(k)) : SubSeq(t, o + 1, o + Len(k)) = k

transcript(rs) == ToLower(Concat(rs))

\* (mutant) a low voiceSensitivity hears nothing
hasEmergencyKeyword_Sensitive(cfg, rs) ==
  /\ cfg.voiceSensitivity >= 50
  /\ \E n \in 1..Len(cfg.emergencyKeywords) :
       Includes(transcript(rs), ToLower(cfg.emergencyKeywords[n]))

hasEmergencyKeyword(cfg, rs) ==
  \E n \in 1..Len(cfg.emergencyKeywords) :
    Includes(transcript(rs), ToLower(cfg.emergencyKeywords[n]))

\* (mutant) the callback is invoked for every keyword that matches
onresultFires_PerKeyword(cfg, rs) ==
  Cardinality({ n \in 1..Len(cfg.emergencyKeywords) :
                  Includes(transcript(rs), ToLower(cfg.emergencyKeywords[n])) })

\* number of onEmergencyDetected invocations of one onresult event
onresultFires(cfg, rs) == IF hasEmergencyKeyword(cfg, rs) THEN 1 ELSE 0

\* ------------------------------------------------------ motion: threshold
\* (mutant) a sample at the threshold triggers too
overThreshold_AtLeast(cfg, acc) ==
  LET sq == acc[1] * acc[1] + acc[2] * acc[2] + acc[3] * acc[3]
      t10 == 100 - cfg.motionSensitivity
  IN  IF t10 < 0 THEN TRUE ELSE 100 * sq >= t10 * t10

\* Math.sqrt(x*x + y*y + z*z) > (100 - motionSensitivity) / 10, compared
\* exactly on the squares (both sides scaled by 10)
\* (mutant) the sensitivity is not scaled down to an acceleration
overThreshold_NoScale(cfg, acc) ==
  LET sq == acc[1] * acc[1] + acc[2] * acc[2] + acc[3] * acc[3]
      t == 100 - cfg.motionSensitivity
  IN  IF t < 0 THEN TRUE ELSE sq > t * t

overThreshold(cfg, acc) ==
  LET sq == acc[1] * acc[1] + acc[2] * acc[2] + acc[3] * acc[3]
      t10 == 100 - cfg.motionSensitivity
  IN  IF t10 < 0 THEN TRUE ELSE 100 * sq > t10 * t10

\* (mutant) every sample over the threshold triggers
handleMotionFires_NoDebounce(cfg, l, acc) ==
  /\ acc # NoAcc
  /\ overThreshold(cfg, acc)

\* whether handleMotion of listener l (created with cfg) triggers on acc
handleMotionFires(cfg, l, acc) ==
  /\ acc # NoAcc
  /\ overThreshold(cfg, acc)
  /\ l.elapsed > DebounceMs

\* --------------------------------------------- startBackgroundDetection
\* the slot the next call gets
NextSlot(i) == /\ calls[i].pc = "unused"
               /\ \A j \in Slots : j < i => calls[j].pc # "unused"

\* the settings value of the closure of call i
cfgOf(i) == SettingsTable[calls[i].cfg]

\* the calls and what they created, and the three refs
Cur == [calls |-> calls, engines |-> engines, listeners |-> listeners,
        streams |-> streams, sref |-> speechRecognitionRef,
        mref |-> motionListenerRef, vref |-> videoStreamRef]

\* call i has returned and nothing it created can act or be reached
Forgotten(p, i) ==
  /\ p.calls[i].pc \in {"done", "rejected"}
  /\ p.engines[i].state \in {"none", "ended"}
  /\ p.engines[i].timer = NoTimer
  /\ ~p.listeners[i].attached
  /\ ~p.streams[i]
  /\ i \notin {p.sref, p.mref, p.vref}

\* the step's result, forgotten calls dropped
Apply(p) ==
  /\ calls' = [i \in Slots |-> IF Forgotten(p, i) THEN NoCall ELSE p.calls[i]]
  /\ engines' = [i \in Slots |-> IF Forgotten(p, i) THEN NoEngine ELSE p.engines[i]]
  /\ listeners' = p.listeners
  /\ streams' = p.streams
  /\ speechRecognitionRef' = p.sref
  /\ motionListenerRef' = p.mref
  /\ videoStreamRef' = p.vref

\* what a call's continuation has computed so far: p as in Cur, dstatus the
\* detectionStatus state, toasts the toasts made
Ctx(p) == [p |-> p, dstatus |-> detectionStatus, toasts |-> << >>]

\* the call returns: its locals are gone
Return(x, i, pc) ==
  [x EXCEPT !.p.calls[i].pc = pc, !.p.calls[i].status = NoStatus]

\* setDetectionStatus(status), then the notification permission request
\* and the closing toast
FinishPhase(x, i) ==
  LET y == [x EXCEPT !.dstatus = x.p.calls[i].status]
  IN  IF notifPermission = "default"
      THEN Return(y, i, "notif")
      ELSE [Return(y, i, "done") EXCEPT
              !.toasts = Append(@, "Background Detection Active")]

\* startCameraDetection up to the getUserMedia request
CameraPhase(x, i) ==
  LET cfg == SettingsTable[x.p.calls[i].cfg]
  IN  IF cfg.blinkEnabled \/ cfg.gestureEnabled
      THEN [x EXCEPT !.p.calls[i].pc = "camera"]
      ELSE FinishPhase(x, i)

\* window.addEventListener('devicemotion', handleMotion) and the ref;
\* lastShakeTime starts at 0, long before Date.now()
AttachMotion(x, i) ==
  [x EXCEPT !.p.listeners[i] = [attached |-> TRUE, elapsed |-> LongAgo],
            !.p.mref = i,
            !.p.calls[i].status.motion = TRUE]

\* (mutant) the listener is attached before the grant is requested
MotionPhase_AttachFirst(x, i) ==
  IF SettingsTable[x.p.calls[i].cfg].motionEnabled
  THEN IF motionGated
       THEN [AttachMotion(x, i) EXCEPT !.p.calls[i].pc = "motionPerm"]
       ELSE CameraPhase(AttachMotion(x, i), i)
  ELSE CameraPhase(x, i)

\* (mutant) motionEnabled is not looked at
MotionPhase_Unconditional(x, i) ==
  IF motionGated
  THEN [x EXCEPT !.p.calls[i].pc = "motionPerm"]
  ELSE CameraPhase(AttachMotion(x, i), i)

\* startMotionDetection up to the permission request
MotionPhase(x, i) ==
  IF SettingsTable[x.p.calls[i].cfg].motionEnabled
  THEN IF motionGated
       THEN [x EXCEPT !.p.calls[i].pc = "motionPerm"]
       ELSE CameraPhase(AttachMotion(x, i), i)
  ELSE CameraPhase(x, i)

\* startVoiceDetection: whether an engine is created and started; vOut is
\* what the host does: "unavailable" (no SpeechRecognition in window),
\* "throw" (the constructor or start() throws), "ok"
startVoiceDetection(cfg, vOut) ==
  cfg.voiceEnabled /\ vOut # "unavailable" /\ vOut # "throw"

\* recognition.start() and the ref
AttachVoice(x, i) ==
  [x EXCEPT !.p.engines[i].state = "running",
            !.p.sref = i,
            !.p.calls[i].status.voice = TRUE]

Commit(x, op, i, arg) ==
  /\ Apply(x.p)
  /\ detectionStatus' = x.dstatus
  /\ out' = Out(op, i, arg, 0, x.toasts)

\* (mutant) the active flag is raised before settings is looked at
StartRefused_ActiveFirst ==
  /\ isBackgroundActive' = TRUE
  /\ out' = Out("start", 0, Null, 0, <<"Configuration Required">>)
  /\ UNCHANGED <<detectionStatus, speechRecognitionRef, motionListenerRef,
                 videoStreamRef, calls, engines, listeners, streams,
                 motionGated, pageVars, notifPermission>>

\* settings absent: the call is refused
StartRefused ==
  /\ out' = Out("start", 0, Null, 0, <<"Configuration Required">>)
  /\ UNCHANGED <<hookVars, calls, engines, listeners, streams, motionGated, pageVars,
                 notifPermission>>

Pending == { j \in Slots : calls[j].pc \in {"motionPerm", "camera", "notif"} }

StartAccepted(i, settings, vOut) ==
  /\ NextSlot(i)
  /\ Cardinality(Pending) < MaxPending
  /\ LET c0 == [pc |-> "voice", cfg |-> settings,
                active |-> isBackgroundActive, status |-> NoStatus]
         x0 == [Ctx(Cur) EXCEPT !.p.calls[i] = c0]
         x1 == IF startVoiceDetection(SettingsTable[settings], vOut)
               THEN AttachVoice(x0, i) ELSE x0
     IN  /\ isBackgroundActive' = TRUE
         /\ Commit(MotionPhase(x1, i), "start", i, settings)
  /\ UNCHANGED <<motionGated, pageVars, notifPermission>>

\* one call, made from a render whose settings argument is settings
startBackgroundDetection(i, settings, vOut) ==
  IF settings = Null THEN StartRefused ELSE StartAccepted(i, settings, vOut)

\* (mutant) a rejected request is not caught: the call ends there
MotionPermissionSettled_RejectAborts(i, res) ==
  /\ calls[i].pc = "motionPerm"
  /\ LET x0 == Ctx(Cur)
         x1 == IF res = "granted" THEN AttachMotion(x0, i)
               ELSE IF res = "denied"
                    THEN [x0 EXCEPT !.toasts = Append(@, "Motion Access Denied")]
                    ELSE x0
     IN  IF res = "reject"
         THEN Commit(Return(x1, i, "rejected"), "motionPerm", i, res)
         ELSE Commit(CameraPhase(x1, i), "motionPerm", i, res)
  /\ UNCHANGED <<isBackgroundActive, motionGated, pageVars, notifPermission>>

\* DeviceMotionEvent.requestPermission() settles
MotionPermissionSettled(i, res) ==
  /\ calls[i].pc = "motionPerm"
  /\ LET x0 == Ctx(Cur)
         x1 == IF res = "granted" THEN AttachMotion(x0, i)
               ELSE IF res = "denied"
                    THEN [x0 EXCEPT !.toasts = Append(@, "Motion Access Denied")]
                    ELSE x0
     IN  Commit(CameraPhase(x1, i), "motionPerm", i, res)
  /\ UNCHANGED <<isBackgroundActive, motionGated, pageVars, notifPermission>>

\* (mutant) acquiring the stream invokes the callback
GetUserMediaSettled_Signals(i, res) ==
  /\ calls[i].pc = "camera"
  /\ LET x0 == Ctx(Cur)
         x1 == IF res = "stream"
               THEN [x0 EXCEPT !.p.streams[i] = TRUE,
                               !.p.vref = i,
                               !.p.calls[i].status.camera = TRUE]
               ELSE IF res = "NotAllowedError"
                    THEN [x0 EXCEPT !.toasts = Append(@, "Camera Access Denied")]
                    ELSE x0
         x2 == FinishPhase(x1, i)
     IN  /\ Apply(x2.p)
         /\ detectionStatus' = x2.dstatus
         /\ out' = Out("camera", i, res, IF res = "stream" THEN 1 ELSE 0, x2.toasts)
  /\ UNCHANGED <<isBackgroundActive, motionGated, pageVars, notifPermission>>

\* (mutant) a denied camera ends the call before setDetectionStatus
GetUserMediaSettled_DenialAborts(i, res) ==
  /\ calls[i].pc = "camera"
  /\ LET x0 == Ctx(Cur)
         x1 == IF res = "stream"
               THEN [x0 EXCEPT !.p.streams[i] = TRUE,
                               !.p.vref = i,
                               !.p.calls[i].status.camera = TRUE]
               ELSE IF res = "NotAllowedError"
                    THEN [x0 EXCEPT !.toasts = Append(@, "Camera Access Denied")]
                    ELSE x0
     IN  IF res = "NotAllowedError"
         THEN Commit(Return(x1, i, "rejected"), "camera", i, res)
         ELSE Commit(FinishPhase(x1, i), "camera", i, res)
  /\ UNCHANGED <<isBackgroundActive, motionGated, pageVars, notifPermission>>

\* navigator.mediaDevices.getUserMedia() settles
GetUserMediaSettled(i, res) ==
  /\ calls[i].pc = "camera"
  /\ LET x0 == Ctx(Cur)
         x1 == IF res = "stream"
               THEN [x0 EXCEPT !.p.streams[i] = TRUE,
                               !.p.vref = i,
                               !.p.calls[i].status.camera = TRUE]
               ELSE IF res = "NotAllowedError"
                    THEN [x0 EXCEPT !.toasts = Append(@, "Camera Access Denied")]
                    ELSE x0
     IN  Commit(FinishPhase(x1, i), "camera", i, res)
  /\ UNCHANGED <<isBackgroundActive, motionGated, pageVars, notifPermission>>

\* Notification.requestPermission() settles
NotificationSettled(i, res) ==
  /\ calls[i].pc = "notif"
  /\ IF res = "reject"
     THEN /\ Apply([Cur EXCEPT !.calls[i].pc = "rejected"])
          /\ out' = Out("notif", i, res, 0, << >>)
          /\ UNCHANGED notifPermission
     ELSE /\ Apply([Cur EXCEPT !.calls[i].pc = "done"])
          /\ out' = Out("notif", i, res, 0, <<"Background Detection Active">>)
          /\ notifPermission' = res
  /\ UNCHANGED <<isBackgroundActive, detectionStatus, motionGated, pageVars>>

\* ---------------------------------------------- stopBackgroundDetection
\* SpeechRecognition.stop(): a running engine delivers what it has and ends
engineStop(e) == IF e.state = "running" THEN [e EXCEPT !.state = "stopping"] ELSE e

\* (mutant) the camera tracks are stopped but the ref is kept
stopBackgroundDetection_KeepsStreamRef ==
  /\ isBackgroundActive' = FALSE
  /\ LET p1 == IF speechRecognitionRef # Null
               THEN [Cur EXCEPT !.engines[speechRecognitionRef] = engineStop(@),
                                !.sref = Null]
               ELSE Cur
         p2 == IF motionListenerRef # Null
               THEN [p1 EXCEPT !.listeners[motionListenerRef] = NoListener,
                               !.mref = Null]
               ELSE p1
         p3 == IF videoStreamRef # Null
               THEN [p2 EXCEPT !.streams[videoStreamRef] = FALSE]
               ELSE p2
     IN  Apply(p3)
  /\ detectionStatus' = NoStatus
  /\ out' = Out("stop", 0, 0, 0, <<"Background Detection Stopped">>)
  /\ UNCHANGED <<motionGated, pageVars, notifPermission>>

\* the body of stopBackgroundDetection; op: who called it
Teardown(op) ==
  /\ isBackgroundActive' = FALSE
  /\ LET p1 == IF speechRecognitionRef # Null
               THEN [Cur EXCEPT !.engines[speechRecognitionRef] = engineStop(@),
                                !.sref = Null]
               ELSE Cur
         p2 == IF motionListenerRef # Null
               THEN [p1 EXCEPT !.listeners[motionListenerRef] = NoListener,
                               !.mref = Null]
               ELSE p1
         p3 == IF videoStreamRef # Null
               THEN [p2 EXCEPT !.streams[videoStreamRef] = FALSE,
                               !.vref = Null]
               ELSE p2
     IN  Apply(p3)
  /\ detectionStatus' = NoStatus
  /\ out' = Out(op, 0, 0, 0, <<"Background Detection Stopped">>)
  /\ UNCHANGED <<motionGated, notifPermission, registrations, shown, buttonVars>>

stopBackgroundDetection ==
  /\ Teardown("stop")
  /\ UNCHANGED mounted

\* ------------------------------------------------- recognition engine events
\* the accumulated result list of the next result event: a new result is
\* appended, or the last result is delivered again (revised, or made final)
NextResults(rs) ==
  { r \in { Append(rs, q) : q \in Pieces } : Len(r) <= MaxResults }
    \cup (IF rs = << >> THEN {}
          ELSE { [rs EXCEPT ![Len(rs)] = q] : q \in Pieces })

\* NextResults for results drawn from P
NextResultsOf(P, rs) ==
  { r \in { Append(rs, q) : q \in P } : Len(r) <= MaxResults }
    \cup (IF rs = << >> THEN {}
          ELSE { [rs EXCEPT ![Len(rs)] = q] : q \in P })

\* (mutant) a match stops the engine
onresult_StopsOnMatch(i, rs) ==
  /\ engines[i].state \in {"running", "stopping"}
  /\ Apply([Cur EXCEPT !.engines[i] = IF onresultFires(cfgOf(i), rs) = 1
                                       THEN engineStop(@)
                                       ELSE [@ EXCEPT !.results = rs]])
  /\ out' = Out("result", i, rs, onresultFires(cfgOf(i), rs), << >>)
  /\ UNCHANGED <<isBackgroundActive, detectionStatus, motionGated, pageVars, notifPermission>>

\* recognition.onresult
onresult(i, rs) ==
  /\ engines[i].state \in {"running", "stopping"}
  /\ Apply([Cur EXCEPT !.engines[i].results = rs])
  /\ out' = Out("result", i, rs, onresultFires(cfgOf(i), rs), << >>)
  /\ UNCHANGED <<isBackgroundActive, detectionStatus, motionGated, pageVars, notifPermission>>

\* recognition.onerror; the engine ends after an error
onerror(i, err) ==
  /\ engines[i].state = "running"
  /\ Apply([Cur EXCEPT !.engines[i].state = "errored",
                       !.engines[i].denied = @ \/ err = "not-allowed"])
  /\ out' = Out("error", i, 0, 0, IF err = "not-allowed"
                                    THEN <<"Microphone Access Denied">> ELSE << >>)
  /\ UNCHANGED <<isBackgroundActive, detectionStatus, motionGated, pageVars, notifPermission>>

\* recognition.onend: the closure's isBackgroundActive and settings decide
\* whether the restart timer is armed
onend(i) ==
  /\ engines[i].state \in {"running", "errored", "stopping"}
  /\ Apply([Cur EXCEPT
              !.engines[i].state = "ended",
              !.engines[i].results = << >>,
              !.engines[i].timer = IF calls[i].active /\ cfgOf(i).voiceEnabled
                                   THEN RestartDelay ELSE NoTimer])
  /\ out' = Out("end", i, 0, 0, << >>)
  /\ UNCHANGED <<isBackgroundActive, detectionStatus, motionGated, pageVars, notifPermission>>

\* (mutant) the restart invokes the callback
restartTimer_Invokes(i) ==
  /\ engines[i].timer = RestartDelay
  /\ Apply([Cur EXCEPT
              !.engines[i].timer = NoTimer,
              !.engines[i].state = IF @ = "ended" THEN "running" ELSE @])
  /\ out' = Out("restart", i, 0, 1, << >>)
  /\ UNCHANGED <<isBackgroundActive, detectionStatus, motionGated, pageVars, notifPermission>>

\* the setTimeout callback of onend, RestartDelay after it was armed:
\* recognition.start(), which throws (and is caught) when the engine is
\* already started
restartTimer(i) ==
  /\ engines[i].timer = RestartDelay
  /\ Apply([Cur EXCEPT
              !.engines[i].timer = NoTimer,
              !.engines[i].state = IF @ = "ended" THEN "running" ELSE @])
  /\ out' = Out("restart", i, 0, 0, << >>)
  /\ UNCHANGED <<isBackgroundActive, detectionStatus, motionGated, pageVars, notifPermission>>

\* ------------------------------------------------------------ devicemotion
Attached == { j \in Slots : listeners[j].attached }

\* one devicemotion event, dispatched to every attached handleMotion
devicemotion(acc) ==
  /\ Attached # {}
  /\ LET firing == { j \in Attached :
                       handleMotionFires(cfgOf(j), listeners[j], acc) }
     IN  /\ Apply([Cur EXCEPT !.listeners =
                     [j \in Slots |->
                        IF j \in firing
                        THEN [listeners[j] EXCEPT !.elapsed = 0]
                        ELSE listeners[j]]])
         /\ out' = Out("motion", 0, acc, Cardinality(firing), << >>)
  /\ UNCHANGED <<isBackgroundActive, detectionStatus, motionGated, pageVars, notifPermission>>

\* ------------------------------------------------------------- environment
Later(t, d) == IF t + d >= LongAgo THEN LongAgo ELSE t + d

\* d milliseconds pass
Tick(d) ==
  /\ LET l == [j \in Slots |->
                 IF listeners[j].attached
                 THEN [listeners[j] EXCEPT !.elapsed = Later(@, d)]
                 ELSE listeners[j]]
     IN  /\ l # listeners
         /\ Apply([Cur EXCEPT !.listeners = l])
  /\ out' = Out("tick", 0, 0, 0, << >>)
  /\ UNCHANGED <<isBackgroundActive, detectionStatus, motionGated, pageVars, notifPermission>>

\* ------------------------------------------------------- settings changes
\* (mutant) the closures of the calls made so far see the new settings
rerender_LivePatch(settings) ==
  /\ calls' = [i \in Slots |-> IF calls[i].pc = "unused" THEN calls[i]
                                ELSE [calls[i] EXCEPT !.cfg = settings]]
  /\ out' = Out("settings", 0, settings, 0, << >>)
  /\ UNCHANGED <<hookVars, engines, listeners, streams, motionGated, pageVars,
                 notifPermission>>

\* the component renders the hook with another settings argument: the
\* functions of the new render capture it, those of earlier renders (the
\* handlers of running channels, suspended calls) keep theirs; no effect
\* depends on settings
rerender(settings) ==
  /\ out' = Out("settings", 0, settings, 0, << >>)
  /\ UNCHANGED <<hookVars, calls, engines, listeners, streams, motionGated, pageVars,
                 notifPermission>>

\* ------------------------------------------------- mounting and unmounting
\* the useEffect cleanup: the component is unmounted, and
\* stopBackgroundDetection runs; calls that are suspended resume later
Unmount ==
  /\ mounted
  /\ Teardown("unmount")
  /\ mounted' = FALSE

\* the useEffect body: the component is mounted again, with fresh state and
\* refs, and the service worker is registered. The state and refs of the new
\* instance are those the cleanup left: a mount is taken only when no call of
\* the unmounted instance is suspended or has written to them since.
Mount ==
  /\ ~mounted
  /\ Pending = {}
  /\ speechRecognitionRef = Null /\ motionListenerRef = Null /\ videoStreamRef = Null
  /\ detectionStatus = NoStatus
  /\ registrations < MaxMounts
  /\ mounted' = TRUE
  /\ registrations' = IF serviceWorkerInNavigator
                      THEN registrations + 1 ELSE registrations
  /\ out' = Out("mount", 0, 0, 0, << >>)
  /\ UNCHANGED <<hookVars, calls, engines, listeners, streams, motionGated,
                 notifPermission, shown, buttonVars>>

\* ------------------------------------------------------- the service worker
\* event.data of a message event: present (truthy) or not, its type, and
\* whether it has a payload, with its contactCount
Data(present, type, hasPayload, contactCount) ==
  [present |-> present, type |-> type, hasPayload |-> hasPayload,
   contactCount |-> contactCount]

Messages ==
  { Data(FALSE, "none", FALSE, 0),
    Data(TRUE, "none", FALSE, 0),
    Data(TRUE, "OTHER", TRUE, 3),
    Data(TRUE, "EMERGENCY_TRIGGERED", TRUE, 0),
    Data(TRUE, "EMERGENCY_TRIGGERED", TRUE, 3),
    Data(TRUE, "EMERGENCY_TRIGGERED", FALSE, 0) }

\* the notification handleEmergencyAlert asks for
Alert(contactCount) ==
  [title |-> "Emergency Alert Sent", body |-> contactCount,
   requireInteraction |-> TRUE, actions |-> <<"view">>]

\* self.registration.showNotification: rejects unless the permission is
\* granted
showNotification(n) == IF notifPermission = "granted" THEN <<n>> ELSE << >>

\* the message listener and handleEmergencyAlert: the notifications shown;
\* reading contactCount of an absent payload throws
handleMessage(data) ==
  IF data.present /\ data.type = "EMERGENCY_TRIGGERED"
  THEN IF data.hasPayload
       THEN showNotification(Alert(data.contactCount))
       ELSE << >>
  ELSE << >>

\* one message event of the service worker
message(data) ==
  /\ Len(shown) < MaxShown
  /\ shown' = shown \o handleMessage(data)
  /\ out' = Out("message", 0, data, 0, << >>)
  /\ UNCHANGED <<hookVars, calls, engines, listeners, streams, motionGated,
                 notifPermission, mounted, registrations, buttonVars>>

\* ------------------------------------------------------ the manual SOS button
\* EmergencyButton.handleEmergencyTrigger: the countdown state and a new
\* interval timer whose closure holds count
handleEmergencyTrigger ==
  IF emergencyMode
  THEN UNCHANGED <<countdown, timers>>
  ELSE /\ countdown' = CountFrom
       /\ timers' = Append(timers, [count |-> CountFrom, orphan |-> FALSE])

\* a click on the button of the dashboard: a disabled button delivers none
press ==
  /\ activeTab = "dashboard"
  /\ (countdown # NoCountdown \/ emergencyMode) \/ Len(timers) + resets < MaxTimers
  /\ IF countdown # NoCountdown \/ emergencyMode
     THEN UNCHANGED <<countdown, timers>>
     ELSE handleEmergencyTrigger
  /\ out' = Out("press", 0, 0, 0, << >>)
  /\ UNCHANGED <<hookVars, calls, engines, listeners, streams, motionGated,
                 notifPermission, mounted, registrations, shown,
                 activeTab, emergencyMode, resets>>

\* the callback of interval timer n; timers of one period fire oldest first.
\* setCountdown reaches the button that created the timer, if it is still
\* mounted; at 0 the timer is cleared and onEmergency (Index.handleEmergency)
\* runs: emergency mode, the two toasts, and the deactivation timeout
interval(n) ==
  /\ n \in 1..Len(timers)
  /\ \A m \in 1..(n - 1) : timers[m].count < timers[n].count
  /\ LET c == timers[n].count - 1
     IN  IF c = 0
         THEN /\ timers' = [k \in 1..(Len(timers) - 1) |->
                              IF k < n THEN timers[k] ELSE timers[k + 1]]
              /\ countdown' = IF timers[n].orphan THEN countdown ELSE NoCountdown
              /\ emergencyMode' = TRUE
              /\ resets' = resets + 1
              /\ out' = Out("countdown", n, c, 1,
                            <<"Emergency Alert Sent!", "Emergency Alert Sent!">>)
         ELSE /\ timers' = [timers EXCEPT ![n].count = c]
              /\ countdown' = IF timers[n].orphan THEN countdown ELSE c
              /\ out' = Out("countdown", n, c, 0, << >>)
              /\ UNCHANGED <<emergencyMode, resets>>
  /\ UNCHANGED <<hookVars, calls, engines, listeners, streams, motionGated,
                 notifPermission, mounted, registrations, shown, activeTab>>

\* the setTimeout callback of handleEmergency, five minutes after it
deactivate ==
  /\ resets > 0
  /\ resets' = resets - 1
  /\ emergencyMode' = FALSE
  /\ out' = Out("deactivate", 0, 0, 0, <<"Emergency Mode Deactivated">>)
  /\ UNCHANGED <<hookVars, calls, engines, listeners, streams, motionGated,
                 notifPermission, mounted, registrations, shown,
                 activeTab, countdown, timers>>

\* Tabs onValueChange: the content of the tab that is left is unmounted (the
\* button's countdown state goes, its timers are not cleared), the content
\* of the new tab is mounted with fresh state
setActiveTab(tab) ==
  /\ tab # activeTab
  /\ activeTab' = tab
  /\ countdown' = NoCountdown
  /\ timers' = [k \in 1..Len(timers) |-> [timers[k] EXCEPT !.orphan = TRUE]]
  /\ out' = Out("tab", 0, tab, 0, << >>)
  /\ UNCHANGED <<hookVars, calls, engines, listeners, streams, motionGated,
                 notifPermission, mounted, registrations, shown,
                 emergencyMode, resets>>

\* ----------------------------------------------------------- specification
VoiceOutcomes == {"ok", "throw", "unavailable"}

Start(S) ==
  \E i \in Slots, s \in S, vOut \in VoiceOutcomes : startBackgroundDetection(i, s, vOut)

MotionSettles ==
  \E i \in Slots, res \in {"granted", "denied", "reject"} : MotionPermissionSettled(i, res)

CameraSettles ==
  \E i \in Slots, res \in {"stream", "NotAllowedError", "error"} : GetUserMediaSettled(i, res)

NotificationSettles ==
  \E i \in Slots, res \in {"granted", "default", "reject"} : NotificationSettled(i, res)

EngineEvents ==
  \/ \E i \in Slots, err \in {"not-allowed", "no-speech"} : onerror(i, err)
  \/ \E i \in Slots : onend(i)
  \/ \E i \in Slots : restartTimer(i)

ResultEvents ==
  \E i \in Slots : \E rs \in NextResults(engines[i].results) : onresult(i, rs)

\* result events whose results are drawn from P
ResultEventsOf(P) ==
  \E i \in Slots : \E rs \in NextResultsOf(P, engines[i].results) : onresult(i, rs)

MotionEvents == \E acc \in Samples : devicemotion(acc)

TimePasses == \E d \in Steps : Tick(d)

WorkerEvents == \E data \in Messages : message(data)

SettingsChanges(S) == \E s \in S : rerender(s)

ButtonEvents ==
  \/ press
  \/ \E n \in 1..MaxTimers : interval(n)
  \/ deactivate
  \/ \E tab \in {"dashboard", "contacts"} : setActiveTab(tab)

\* the hook in its environment
Next ==
  \/ mounted /\ Start(SettingsSet \cup {Null})
  \/ mounted /\ stopBackgroundDetection
  \/ Unmount
  \/ Mount
  \/ WorkerEvents
  \/ MotionSettles
  \/ CameraSettles
  \/ NotificationSettles
  \/ EngineEvents
  \/ ResultEvents
  \/ MotionEvents
  \/ TimePasses
  \/ SettingsChanges(SettingsSet)
  \/ ButtonEvents

Spec == Init /\ [][Next]_vars

\* the calls alone: no sensor delivers anything
NextCalls ==
  \/ Start({1, 2, 3, 4, Null})
  \/ stopBackgroundDetection
  \/ MotionSettles
  \/ CameraSettles
  \/ NotificationSettles

CallsSpec == Init /\ [][NextCalls]_vars

\* the voice channel: every session enables voice alone
NextVoice ==
  \/ Start({3, Null})
  \/ stopBackgroundDetection
  \/ NotificationSettles
  \/ EngineEvents
  \/ ResultEvents

VoiceSpec == Init /\ [][NextVoice]_vars

\* the motion channel: every session enables motion alone
NextMotion ==
  \/ Start(MotionOnly \cup {Null})
  \/ stopBackgroundDetection
  \/ MotionSettles
  \/ NotificationSettles
  \/ MotionEvents
  \/ TimePasses

MotionSpec == Init /\ [][NextMotion]_vars

\* the outcomes of the channels: sessions of all three channels and of
\* none that are started and not stopped, every request settling every way
NextOutcomes ==
  \/ Start({1} \cup NoChannel)
  \/ MotionSettles
  \/ CameraSettles
  \/ NotificationSettles

OutcomesSpec == Init /\ [][NextOutcomes]_vars

\* end to end: sessions of voice and motion with the keywords "help" and
\* "emergency", started while the hook is idle and never stopped, and what is
\* said to them
NextEndToEnd ==
  \/ ~isBackgroundActive /\ Start({9})
  \/ MotionSettles
  \/ NotificationSettles
  \/ ResultEventsOf(Utterances)

EndToEndSpec == Init /\ [][NextEndToEnd]_vars

\* camera: sessions of voice and blink detection, each started while the hook
\* is idle, to which the keyword is said
NextCamera ==
  \/ ~isBackgroundActive /\ Start({11})
  \/ stopBackgroundDetection
  \/ CameraSettles
  \/ ResultEventsOf({ <<"H", "i">> })

CameraSpec == Init /\ [][NextCamera]_vars

\* disposal: sessions of all channels, each started while the hook is idle,
\* and the component unmounted at any moment
NextDispose ==
  \/ mounted /\ ~isBackgroundActive /\ Start({1})
  \/ mounted /\ stopBackgroundDetection
  \/ MotionSettles
  \/ CameraSettles
  \/ NotificationSettles
  \/ Unmount

DisposeSpec == Init /\ [][NextDispose]_vars

\* restarts: voice sessions that are never stopped, their engines ending and
\* being restarted
NextRestart ==
  \/ Start({3})
  \/ EngineEvents
  \/ ResultEvents

RestartSpec == Init /\ [][NextRestart]_vars

\* thresholds: sessions of motionSensitivity 10, 55, 60 and 100 that are never
\* stopped, on a host without speech recognition, and samples around their
\* thresholds
NextThreshold ==
  \/ \E i \in Slots, s \in {9, 12, 13, 14} : startBackgroundDetection(i, s, "unavailable")
  \/ MotionSettles
  \/ \E acc \in ThresholdSamples : devicemotion(acc)

ThresholdSpec == Init /\ [][NextThreshold]_vars

\* settings changes: sessions of voice alone (with keywords) and of motion
\* alone (sensitivity 90), the settings argument changing while they run (to
\* no keywords, to sensitivity 60); the keyword is said, and the device is
\* shaken with magnitude 4
NextSettings ==
  \/ Start({3, 4})
  \/ stopBackgroundDetection
  \/ MotionSettles
  \/ SettingsChanges({3, 4, 5, 7})
  \/ ResultEventsOf({ <<"H", "i">> })
  \/ devicemotion(<<4, 0, 0>>)

SettingsSpec == Init /\ [][NextSettings]_vars

\* voiceSensitivity: sessions of voice and motion, never stopped, whose
\* settings differ in voiceSensitivity alone (70, 10), what is said to them,
\* and their engines ending
NextSensitivity ==
  \/ Start({9, 10})
  \/ MotionSettles
  \/ \E i \in Slots : onend(i)
  \/ ResultEventsOf({ PleaseHelpMe })

SensitivitySpec == Init /\ [][NextSensitivity]_vars

\* the motion grant: motion sessions, started and stopped, their permission
\* requests settling
NextGrant ==
  \/ Start(MotionOnly)
  \/ stopBackgroundDetection
  \/ MotionSettles
  \/ NotificationSettles

GrantSpec == Init /\ [][NextGrant]_vars

\* the dashboard: the SOS button, its countdown, and the tabs
NextButton == ButtonEvents

ButtonSpec == Init /\ [][NextButton]_vars

\* shaking: motion sessions, samples and the clock
NextShake ==
  \/ Start(MotionOnly)
  \/ stopBackgroundDetection
  \/ MotionSettles
  \/ MotionEvents
  \/ TimePasses

ShakeSpec == Init /\ [][NextShake]_vars

\* start and stop: sessions of one channel each, no sensor delivers anything
NextStartStop ==
  \/ Start({3, 4, 6, Null})
  \/ stopBackgroundDetection
  \/ MotionSettles
  \/ CameraSettles
  \/ NotificationSettles

StartStopSpec == Init /\ [][NextStartStop]_vars

\* the component is mounted and unmounted; sessions of voice alone
NextMount ==
  \/ mounted /\ Start({3, Null})
  \/ mounted /\ stopBackgroundDetection
  \/ NotificationSettles
  \/ Unmount
  \/ Mount

MountSpec == Init /\ [][NextMount]_vars

\* the service worker: messages, and the notification permission changing
NextWorker ==
  \/ Start({2, Null})
  \/ NotificationSettles
  \/ WorkerEvents

WorkerSpec == Init /\ [][NextWorker]_vars

\* keyword matching: voice sessions of every keyword list, and their results
NextMatch ==
  \/ Start(VoiceOnly \cup {Null})
  \/ stopBackgroundDetection
  \/ ResultEvents

MatchSpec == Init /\ [][NextMatch]_vars

\* ------------------------------------------------------------------ claims
refs == <<speechRecognitionRef, motionListenerRef, videoStreamRef>>
channels == <<calls, engines, listeners, streams>>
NoRefs == <<Null, Null, Null>>
Running == { i \in Slots : engines[i].state = "running" }
Live == { i \in Slots : streams[i] }

\* C1: a startBackgroundDetection call made while settings is null reports
\* "Configuration Required" and changes nothing else: isBackgroundActive,
\* detectionStatus, the three refs, and no call, engine, listener or stream
\* (so no permission or stream request) is created or changed.
C1_StartRefusedTouchesNothing ==
  [][ (out'.op = "start" /\ out'.arg = Null)
        => /\ out'.toasts = <<"Configuration Required">>
           /\ UNCHANGED <<isBackgroundActive, detectionStatus, refs, channels>> ]_vars

\* a refused start while a session holds an engine
C1_Witness ==
  /\ out.op = "start" /\ out.arg = Null
  /\ isBackgroundActive
  /\ speechRecognitionRef # Null

\* C2: stopBackgroundDetection always leaves detectionStatus all false and
\* the three refs empty; called right after another stop, or while no ref is
\* held, it changes no call, engine, listener or stream, and right after
\* another stop it changes nothing of the hook's state at all.
C2_StopIdempotent ==
  [][ out'.op = "stop"
        => /\ detectionStatus' = NoStatus
           /\ refs' = NoRefs
           /\ (out.op = "stop" \/ refs = NoRefs) => UNCHANGED <<refs, channels>>
           /\ out.op = "stop" => UNCHANGED <<isBackgroundActive, detectionStatus>> ]_vars

\* stop has run while no call was alive and nothing was held
C2_Witness ==
  /\ out.op = "stop"
  /\ \A i \in Slots : calls[i] = NoCall
  /\ refs = NoRefs /\ detectionStatus = NoStatus /\ ~isBackgroundActive

\* C3: whenever no call is suspended, at most one engine runs, at most one
\* devicemotion listener is attached and at most one camera stream is live;
\* and when stop has run every registration has been undone: no listener is
\* attached, no engine runs and no stream is live.
C3_RestartLeavesOneOfEach ==
  /\ Pending = {} => /\ Cardinality(Running) <= 1
                     /\ Cardinality(Attached) <= 1
                     /\ Cardinality(Live) <= 1
  /\ out.op = "stop" => Running = {} /\ Attached = {} /\ Live = {}

\* C4: when stopBackgroundDetection has run, no engine the hook started is
\* running, no listener it registered is attached and no stream it acquired
\* is live.
C4_StopReleasesEverything ==
  out.op = "stop" =>
    \A i \in Slots : /\ engines[i].state # "running"
                     /\ ~listeners[i].attached
                     /\ ~streams[i]

\* C5: when a permission request of a call settles after stop was called
\* (isBackgroundActive is false: no start since), the settlement attaches no
\* listener, keeps no stream and leaves detectionStatus all false.
C5_StaleCompletionsAreNoOps ==
  [][ \A i \in Slots :
        (i \in Pending /\ ~isBackgroundActive /\ out'.slot = i
           /\ out'.op \in {"motionPerm", "camera", "notif"})
          => /\ ~listeners'[i].attached
             /\ ~streams'[i]
             /\ detectionStatus' = NoStatus ]_vars

\* C6: one physical event invokes the callback exactly once: a result event
\* of an utterance whose earlier results already contained a keyword (and so
\* invoked the callback) invokes nothing, and a devicemotion event whose
\* sample is over the threshold of an attached listener invokes it once.
C6_OncePerPhysicalEvent ==
  [][ /\ \A i \in Slots :
           (out'.op = "result" /\ out'.slot = i
              /\ hasEmergencyKeyword(cfgOf(i), engines[i].results))
             => out'.fired = 0
      /\ (out'.op = "motion" /\ out'.arg # NoAcc
            /\ \E j \in Attached : overThreshold(cfgOf(j), out'.arg))
           => out'.fired = 1 ]_vars

\* C7: a result event invokes the callback once if the lower-cased
\* concatenated transcript contains some lower-cased keyword of the
\* closure's settings as a substring, and not at all otherwise.
IsSubstring(k, t) ==
  \E a \in 0..Len(t), b \in 0..Len(t) :
    /\ a + Len(k) + b = Len(t)
    /\ \A n \in 1..Len(k) : t[a + n] = k[n]

SomeKeywordIn(K, T) ==
  \E n \in DOMAIN K : IsSubstring(ToLower(K[n]), ToLower(T))

C7_VoiceFiresIffKeyword ==
  [][ out'.op = "result"
        => out'.fired = IF SomeKeywordIn(cfgOf(out'.slot).emergencyKeywords,
                                         Concat(out'.arg))
                        THEN 1 ELSE 0 ]_vars

\* a result in which two keywords match has invoked the callback once
C7_Witness ==
  /\ out.op = "result" /\ out.fired = 1
  /\ LET K == cfgOf(out.slot).emergencyKeywords
     IN  Cardinality({ n \in DOMAIN K :
                         IsSubstring(ToLower(K[n]), ToLower(Concat(out.arg))) }) = 2

\* C8: when the running engine of the current session ends by itself while
\* the session is active (the hook holds it, isBackgroundActive is true,
\* voice is enabled), its restart is scheduled, RestartDelay ahead.
C8_EndSchedulesRestart ==
  [][ \A i \in Slots :
        (out'.op = "end" /\ out'.slot = i /\ engines[i].state = "running"
           /\ speechRecognitionRef = i
           /\ isBackgroundActive /\ cfgOf(i).voiceEnabled)
          => engines'[i].timer = RestartDelay ]_vars

\* C9: once an engine has reported "not-allowed" it is not started again
\* and reports no second microphone warning.
C9_DeniedEngineStaysStopped ==
  [][ \A i \in Slots :
        engines[i].denied
          => /\ engines[i].state # "running" => engines'[i].state # "running"
             /\ ~(out'.op = "error" /\ out'.slot = i /\ out'.toasts # << >>) ]_vars

\* C10: a channel whose permission was denied is false in detectionStatus:
\* voice is false once the engine the hook holds has reported "not-allowed",
\* and motion and camera are true only while a listener is attached, a
\* stream is live.
C10_DeniedChannelIsFalse ==
  /\ \A i \in Slots :
       (speechRecognitionRef = i /\ engines[i].denied
          /\ engines[i].state # "running")
         => ~detectionStatus.voice
  /\ detectionStatus.motion => Attached # {}
  /\ detectionStatus.camera => Live # {}

\* a toast other than the closing "Background Detection Active"
Warned(toasts) ==
  \E n \in 1..Len(toasts) : toasts[n] # "Background Detection Active"

CameraEnabled(c) == c.blinkEnabled \/ c.gestureEnabled

\* C11: the step in which an enabled channel fails to start makes a warning
\* toast: a start that leaves the enabled voice channel without an engine, a
\* motion permission request that ends without a listener, a camera request
\* that ends without a stream.
C11_FailedChannelIsWarned ==
  [][ /\ (out'.op = "start" /\ out'.arg # Null
            /\ SettingsTable[out'.arg].voiceEnabled
            /\ engines'[out'.slot].state = "none")
           => Warned(out'.toasts)
      /\ (out'.op = "motionPerm" /\ ~listeners'[out'.slot].attached)
           => Warned(out'.toasts)
      /\ (out'.op = "camera" /\ ~streams'[out'.slot])
           => Warned(out'.toasts) ]_vars

\* the squared magnitude of a sample
Magnitude2(acc) == acc[1] * acc[1] + acc[2] * acc[2] + acc[3] * acc[3]

\* C12: a devicemotion event makes a handler invoke the callback only if the
\* sample is over that handler's threshold and at least DebounceMs have
\* passed since that handler's last trigger: the invocations of one event
\* are no more than the attached handlers for which both hold, and every
\* handler that has just triggered (elapsed 0) and is given a sample again
\* stays silent.
C12_MotionDebounce ==
  [][ out'.op = "motion"
        => /\ out'.fired <=
                Cardinality({ j \in Attached :
                    /\ out'.arg # NoAcc
                    /\ 100 * Magnitude2(out'.arg)
                         > (100 - cfgOf(j).motionSensitivity)
                             * (100 - cfgOf(j).motionSensitivity)
                    /\ listeners[j].elapsed >= DebounceMs })
           /\ (\A j \in Attached : listeners[j].elapsed < DebounceMs)
                => out'.fired = 0 ]_vars

\* a sample over the threshold was suppressed inside the window
C12_Witness ==
  /\ out.op = "motion" /\ out.fired = 0 /\ out.arg = <<3, 4, 0>>
  /\ \E j \in Attached : listeners[j].elapsed \in 0..(DebounceMs - 1)

\* C13: with motionSensitivity 60 (threshold 4) a sample of magnitude 5
\* given to the only attached handler triggers when the handler is fresh
\* (t = 0), does not trigger 1000 ms after that trigger, and triggers again
\* 2100 ms after it.
C13_ShakeExample ==
  [][ \A j \in Slots :
        (out'.op = "motion" /\ out'.arg = <<3, 4, 0>> /\ Attached = {j}
           /\ cfgOf(j).motionSensitivity = 60)
          => /\ listeners[j].elapsed = LongAgo
                  => out'.fired = 1 /\ listeners'[j].elapsed = 0
             /\ listeners[j].elapsed = 1000
                  => out'.fired = 0 /\ listeners'[j].elapsed = 1000
             /\ listeners[j].elapsed = 2100
                  => out'.fired = 1 /\ listeners'[j].elapsed = 0 ]_vars

\* the only attached handler, of sensitivity 60, has triggered (nothing else
\* sets elapsed to 0) and 2100 ms have passed since, in steps of 1000 and
\* 1100 ms: the third sample of the example is due
C13_Witness ==
  /\ out.op = "tick"
  /\ \E j \in Slots : /\ Attached = {j}
                       /\ cfgOf(j).motionSensitivity = 60
                       /\ listeners[j].elapsed = 2100

\* C14: when the camera request of a call is denied while the session's
\* engine runs and its listener is attached (voice and motion started, no
\* stop since), detectionStatus becomes voice and motion true, camera false,
\* "Camera Access Denied" is reported, and the engine keeps running and the
\* listener stays attached and held.
C14_CameraDeniedOthersRun ==
  [][ \A i \in Slots :
        (out'.op = "camera" /\ out'.slot = i /\ out'.arg = "NotAllowedError"
           /\ calls[i].status.voice /\ calls[i].status.motion
           /\ isBackgroundActive
           /\ speechRecognitionRef = i /\ engines[i].state = "running"
           /\ motionListenerRef = i /\ listeners[i].attached)
          => /\ detectionStatus' = [voice |-> TRUE, motion |-> TRUE, camera |-> FALSE]
             /\ \E n \in 1..Len(out'.toasts) : out'.toasts[n] = "Camera Access Denied"
             /\ isBackgroundActive'
             /\ speechRecognitionRef' = i /\ engines'[i].state = "running"
             /\ motionListenerRef' = i /\ listeners'[i].attached
             /\ ~streams'[i] ]_vars

\* the camera was denied to a session whose engine runs and whose listener
\* is attached
C14_Witness ==
  /\ out.op = "camera" /\ out.arg = "NotAllowedError"
  /\ detectionStatus = [voice |-> TRUE, motion |-> TRUE, camera |-> FALSE]
  /\ speechRecognitionRef = out.slot /\ engines[out.slot].state = "running"
  /\ motionListenerRef = out.slot /\ listeners[out.slot].attached

\* C15: a start whose settings enable no modality sets detectionStatus all
\* false and creates nothing: no engine is started, no listener attached, no
\* stream acquired, no ref set, and the call is not suspended at a motion or
\* camera request.
C15_NothingEnabledNothingStarted ==
  [][ (out'.op = "start" /\ out'.arg \in NoChannel)
        => /\ detectionStatus' = NoStatus
           /\ UNCHANGED <<refs, listeners, streams>>
           /\ \A j \in Slots : engines'[j] \in {engines[j], NoEngine}
           /\ engines'[out'.slot] = NoEngine
           /\ calls'[out'.slot].pc \notin {"motionPerm", "camera"} ]_vars

\* a start with nothing enabled on a fresh hook
C15_Witness ==
  /\ out.op = "start" /\ out.arg \in NoChannel
  /\ isBackgroundActive /\ detectionStatus = NoStatus /\ refs = NoRefs
  /\ Running = {} /\ Attached = {} /\ Live = {}

\* the camera request of call i has been made
CameraRequested(i) == calls[i].pc = "camera" \/ streams[i]

\* C16: a call suspended at a permission request has started every other
\* enabled channel: while its motion request is pending its camera request
\* has been made, and while its camera request is pending its motion request
\* has been made and answered.
C16_PendingBlocksOwnChannelOnly ==
  \A i \in Slots :
    /\ (calls[i].pc = "motionPerm" /\ CameraEnabled(cfgOf(i)))
         => CameraRequested(i)
    /\ (calls[i].pc = "camera" /\ cfgOf(i).motionEnabled /\ ~motionGated)
         => calls[i].status.motion

\* the status flags call i has decided after a step: its local status while
\* it is suspended at a motion or camera request, detectionStatus once it is
\* past setDetectionStatus
Flags(c, ds) == IF c.pc \in {"motionPerm", "camera"} THEN c.status ELSE ds

\* C17: whatever the outcome of a channel, the next enabled channel is
\* attempted and every flag follows its own channel's outcome alone.  A
\* start attempts motion (and then camera) whether or not the engine
\* started; a settled motion request, granted, denied or rejected, is
\* followed by the camera request; the voice flag is true exactly if the
\* engine was started, the motion flag exactly if the listener was attached,
\* the camera flag exactly if the stream was acquired, and a later step
\* leaves the flags of the earlier channels as they were.
C17_FailuresAreIsolated ==
  [][ \A i \in Slots :
        /\ (out'.op = "start" /\ out'.arg # Null /\ out'.slot = i)
             => LET c == SettingsTable[out'.arg]
                    f == Flags(calls'[i], detectionStatus')
                IN  /\ (c.motionEnabled /\ motionGated) => calls'[i].pc = "motionPerm"
                    /\ (c.motionEnabled /\ ~motionGated) => listeners'[i].attached
                    /\ (CameraEnabled(c) /\ ~(c.motionEnabled /\ motionGated))
                         => calls'[i].pc = "camera"
                    /\ f.voice = (engines'[i].state = "running")
                    /\ calls'[i].pc # "motionPerm"
                         => f.motion = listeners'[i].attached
                    /\ ~f.camera
        /\ (out'.op = "motionPerm" /\ out'.slot = i)
             => LET f == Flags(calls'[i], detectionStatus')
                IN  /\ CameraEnabled(cfgOf(i)) => calls'[i].pc = "camera"
                    /\ f.voice = calls[i].status.voice
                    /\ f.motion = (out'.arg = "granted")
                    /\ f.motion = listeners'[i].attached
                    /\ ~f.camera
        /\ (out'.op = "camera" /\ out'.slot = i)
             => /\ detectionStatus'.voice = calls[i].status.voice
                /\ detectionStatus'.motion = calls[i].status.motion
                /\ detectionStatus'.camera = (out'.arg = "stream")
                /\ detectionStatus'.camera = streams'[i] ]_vars

\* the enabled voice and motion channels both failed to start, and the
\* camera stream was still acquired
C17_Witness ==
  /\ out.op = "camera" /\ out.arg = "stream"
  /\ detectionStatus = [voice |-> FALSE, motion |-> FALSE, camera |-> TRUE]
  /\ videoStreamRef = out.slot /\ streams[out.slot]
  /\ cfgOf(out.slot).voiceEnabled /\ cfgOf(out.slot).motionEnabled

\* C18: no step of a startBackgroundDetection call ends the call with a
\* rejection: after each of its steps the call is suspended at a request or
\* has run to its last statement, the closing toast.
C18_StartNeverRejects ==
  [][ \A i \in Slots :
        (out'.op \in {"start", "motionPerm", "camera", "notif"}
           /\ out'.slot = i)
          => \/ calls'[i].pc \in {"motionPerm", "camera", "notif"}
             \/ \E n \in 1..Len(out'.toasts) :
                  out'.toasts[n] = "Background Detection Active" ]_vars

\* C19: a message makes the service worker show a notification if and only
\* if its type is "EMERGENCY_TRIGGERED", and then exactly one, whose body
\* carries the contactCount and whose only action is "view".
C19_WorkerNotifiesIffEmergency ==
  [][ out'.op = "message"
        => LET d == out'.arg
               new == SubSeq(shown', Len(shown) + 1, Len(shown'))
           IN  IF d.present /\ d.type = "EMERGENCY_TRIGGERED"
               THEN /\ Len(new) = 1
                    /\ new[1].body = d.contactCount
                    /\ new[1].actions = <<"view">>
               ELSE new = << >> ]_vars

\* C20: navigator.serviceWorker.register is called at most once, however
\* often the component is mounted.
C20_RegisteredAtMostOnce == registrations <= 1

\* C21: with voice and motion enabled, the camera modalities disabled,
\* motionSensitivity 60 and the keywords "help" and "emergency": the step of
\* a call that has started the engine and attached the listener (the host
\* granted both) sets detectionStatus to voice and motion true, camera
\* false, and requests no camera stream; and a result event with the
\* transcript "please help me" invokes the callback exactly once.
C21_EndToEnd ==
  [][ \A i \in Slots :
        /\ (out'.op \in {"start", "motionPerm"} /\ out'.slot = i
              /\ calls'[i].cfg = 9
              /\ engines'[i].state = "running" /\ listeners'[i].attached)
             => /\ detectionStatus' = [voice |-> TRUE, motion |-> TRUE, camera |-> FALSE]
                /\ calls'[i].pc # "camera"
                /\ ~streams'[i] /\ videoStreamRef' = videoStreamRef
        /\ (out'.op = "result" /\ out'.slot = i /\ calls[i].cfg = 9
              /\ out'.arg = <<PleaseHelpMe>>)
             => out'.fired = 1 ]_vars

\* "please help me" was said to a running session of these settings
C21_Witness ==
  /\ out.op = "result" /\ out.arg = <<PleaseHelpMe>> /\ out.fired = 1
  /\ calls[out.slot].cfg = 9
  /\ SettingsTable[9].emergencyKeywords = KwHelp
  /\ SettingsTable[9].motionSensitivity = 60
  /\ isBackgroundActive
  /\ detectionStatus = [voice |-> TRUE, motion |-> TRUE, camera |-> FALSE]
  /\ engines[out.slot].state = "running" /\ listeners[out.slot].attached
  /\ Live = {}

\* C22: the camera channel never produces an emergency signal: the callback
\* is invoked only by a result event or a motion event, never by the step
\* that acquires the stream; a stream is acquired only when getUserMedia
\* resolves for a start call, and stop releases the tracks of the stream it
\* holds; no other step touches a stream.
C22_CameraNeverSignals ==
  [][ /\ out'.fired > 0 => out'.op \in {"result", "motion"}
      /\ out'.op = "camera" => out'.fired = 0
      /\ \A i \in Slots :
            /\ (~streams[i] /\ streams'[i])
                 => out'.op = "camera" /\ out'.slot = i /\ out'.arg = "stream"
            /\ (streams[i] /\ ~streams'[i])
                 => out'.op = "stop" /\ videoStreamRef = i
      /\ (out'.op = "stop" /\ videoStreamRef # Null)
           => ~streams'[videoStreamRef] /\ videoStreamRef' = Null ]_vars

\* a stream was acquired while the voice channel of the same session runs
C22_Witness ==
  /\ out.op = "camera" /\ out.arg = "stream" /\ out.fired = 0
  /\ streams[out.slot] /\ videoStreamRef = out.slot
  /\ engines[out.slot].state = "running"
  /\ detectionStatus.camera

\* C23: once the component is unmounted and every call that was in flight
\* at that moment has run to its end, no engine is running, no devicemotion
\* listener is attached and no camera stream is live.
C23_DisposedLeavesNothing ==
  (~mounted /\ Pending = {})
    => Running = {} /\ Attached = {} /\ Live = {}

\* C24: a keyword match does not stop voice monitoring: the result event
\* that invokes the callback leaves the engine in the state it was in
\* (running stays running), leaves the refs, the active flag and
\* detectionStatus as they were, and the next result event of the same
\* engine whose transcript holds a keyword invokes the callback again.
C24_MatchKeepsListening ==
  [][ \A i \in Slots :
        /\ (out'.op = "result" /\ out'.slot = i /\ out'.fired = 1)
             => /\ engines'[i].state = engines[i].state
                /\ engines'[i].timer = engines[i].timer
                /\ refs' = refs
                /\ isBackgroundActive' = isBackgroundActive
                /\ detectionStatus' = detectionStatus
        /\ (out.op = "result" /\ out.slot = i /\ out.fired = 1
              /\ out'.op = "result" /\ out'.slot = i
              /\ SomeKeywordIn(cfgOf(i).emergencyKeywords, Concat(out'.arg)))
             => out'.fired = 1 ]_vars

\* the callback was invoked for the engine the hook holds, which still runs
C24_Witness ==
  /\ out.op = "result" /\ out.fired = 1
  /\ engines[out.slot].state = "running"
  /\ speechRecognitionRef = out.slot
  /\ isBackgroundActive /\ detectionStatus.voice

\* C25: an automatic restart never by itself invokes the callback: the end
\* event and the restart invoke nothing, the restarted engine begins with an
\* empty result list, and the first result event after the restart is
\* judged on its own transcript alone.
C25_RestartInvokesNothing ==
  [][ \A i \in Slots :
        /\ (out'.op = "end" /\ out'.slot = i)
             => out'.fired = 0 /\ engines'[i].results = << >>
        /\ (out'.op = "restart" /\ out'.slot = i)
             => out'.fired = 0 /\ engines'[i].results = engines[i].results
        /\ (out.op = "restart" /\ out.slot = i /\ engines[i].state = "running"
              /\ out'.op = "result" /\ out'.slot = i)
             => /\ Len(out'.arg) = 1
                /\ out'.fired = IF SomeKeywordIn(cfgOf(i).emergencyKeywords, out'.arg[1])
                                 THEN 1 ELSE 0 ]_vars

\* an engine that ended has been started again by its restart timer
C25_Witness ==
  /\ out.op = "restart" /\ out.fired = 0
  /\ engines[out.slot].state = "running"
  /\ engines[out.slot].results = << >>

\* C26: once stopBackgroundDetection has been called and until the next
\* start call (isBackgroundActive is false), no engine is started again:
\* an end event arms no restart timer, and a restart timer that fires
\* leaves an engine that is not running not running.
C26_NoRestartAfterStop ==
  [][ \A i \in Slots :
        (~isBackgroundActive /\ out'.slot = i)
          => /\ out'.op = "end" => engines'[i].timer = NoTimer
             /\ (out'.op = "restart" /\ engines[i].state # "running")
                  => engines'[i].state # "running" ]_vars

\* C27: a handler created with motionSensitivity s in 10..100 that has not
\* triggered within the debounce window triggers on a sample exactly when
\* the sample has an acceleration vector whose magnitude is strictly
\* greater than (100 - s) / 10; the threshold lies in 0..9 (a sample of
\* magnitude above 9 triggers every such handler, one of magnitude 0 none)
\* and decreases strictly with s (a sample that triggers a handler triggers
\* every handler of higher sensitivity, and for two different sensitivities
\* the thresholds differ).
C27_ThresholdFromSensitivity ==
  [][ out'.op = "motion" =>
        LET acc == out'.arg
            S(j) == cfgOf(j).motionSensitivity
            Fresh == { j \in Attached : listeners[j].elapsed > DebounceMs
                                          /\ S(j) \in 10..100 }
            Fired(j) == listeners'[j].elapsed = 0
            \* ten times the threshold
            T10(j) == 100 - S(j)
        IN  /\ \A j \in Fresh :
                  /\ Fired(j) <=> /\ acc # NoAcc
                                   /\ 100 * Magnitude2(acc) > T10(j) * T10(j)
                  /\ T10(j) \in 0..90
                  /\ (acc # NoAcc /\ Magnitude2(acc) > 81) => Fired(j)
                  /\ (acc # NoAcc /\ Magnitude2(acc) = 0) => ~Fired(j)
            /\ \A j \in Fresh, k \in Fresh :
                  S(j) < S(k) => /\ T10(j) > T10(k)
                                 /\ Fired(j) => Fired(k)
            /\ Attached = Fresh
                  => out'.fired = Cardinality({ j \in Fresh : Fired(j) }) ]_vars

\* a sample of magnitude 5 was given to handlers of sensitivity 55
\* (threshold 4.5) and 10 (threshold 9): one triggered
C27_Witness ==
  /\ out.op = "motion" /\ out.arg = <<3, 4, 0>> /\ out.fired = 1
  /\ \E j \in Attached, k \in Attached :
        /\ cfgOf(j).motionSensitivity = 55 /\ listeners[j].elapsed = 0
        /\ cfgOf(k).motionSensitivity = 10 /\ listeners[k].elapsed = LongAgo

\* C28: handles and status agree in every reachable state: a ref holds a
\* channel only while that channel is running (the engine running, the
\* listener attached, the stream live), and whenever a flag of
\* detectionStatus is true the ref of that channel is held.
C28_HandlesAndStatusAgree ==
  /\ speechRecognitionRef # Null => engines[speechRecognitionRef].state = "running"
  /\ motionListenerRef # Null => listeners[motionListenerRef].attached
  /\ videoStreamRef # Null => streams[videoStreamRef]
  /\ detectionStatus.voice => speechRecognitionRef # Null
  /\ detectionStatus.motion => motionListenerRef # Null
  /\ detectionStatus.camera => videoStreamRef # Null

\* C29: settings are immutable per session: a change of the settings
\* argument alters no state of the hook and no channel; the settings of a
\* call's closures are those passed to that start and stay so while the
\* call or its channels exist; a result event is matched against the
\* keywords of those settings, a sample against the threshold of those
\* settings.
C29_SettingsFixedPerSession ==
  [][ /\ out'.op = "settings"
           => /\ isBackgroundActive' = isBackgroundActive
              /\ detectionStatus' = detectionStatus
              /\ refs' = refs /\ channels' = channels
      /\ \A i \in Slots :
            /\ (out'.op = "start" /\ out'.slot = i /\ calls'[i].cfg # Null)
                 => calls'[i].cfg = out'.arg
            /\ (calls[i].cfg # Null /\ calls'[i].cfg # Null
                  /\ ~(out'.op = "start" /\ out'.slot = i))
                 => calls'[i].cfg = calls[i].cfg
            /\ (out'.op = "result" /\ out'.slot = i)
                 => out'.fired =
                      IF SomeKeywordIn(SettingsTable[calls[i].cfg].emergencyKeywords,
                                       Concat(out'.arg))
                      THEN 1 ELSE 0
            /\ (out'.op = "motion" /\ listeners[i].attached
                  /\ listeners[i].elapsed > DebounceMs)
                 => (listeners'[i].elapsed = 0
                       <=> 100 * Magnitude2(out'.arg)
                             > (100 - SettingsTable[calls[i].cfg].motionSensitivity)
                                 * (100 - SettingsTable[calls[i].cfg].motionSensitivity)) ]_vars

\* the settings argument has changed while a session runs whose keywords
\* or sensitivity differ from the new ones
C29_Witness ==
  /\ out.op = "settings" /\ isBackgroundActive
  /\ \/ \E i \in Slots :
          /\ speechRecognitionRef = i /\ engines[i].state = "running"
          /\ cfgOf(i).emergencyKeywords # SettingsTable[out.arg].emergencyKeywords
     \/ \E i \in Slots :
          /\ motionListenerRef = i /\ listeners[i].attached
          /\ cfgOf(i).motionSensitivity # SettingsTable[out.arg].motionSensitivity

\* the settings value that differs from k in voiceSensitivity alone
Twin(k) == IF k = 9 THEN 10 ELSE IF k = 10 THEN 9 ELSE k

\* C30: voiceSensitivity has no influence on detection: every step of a run
\* is matched by the run with the same operations and events whose settings
\* differ in voiceSensitivity alone. A start call given the twin settings
\* reaches the same detectionStatus, toasts, refs and channels; a motion
\* permission that settles for a call of the twin settings does too; a
\* result event invokes the callback as often for the twin settings; an end
\* event arms the restart timer alike.
C30_VoiceSensitivityIgnored ==
  [][ \A i \in Slots :
        /\ (out'.op = "start" /\ out'.slot = i /\ out'.arg # Null)
             => \E vOut \in VoiceOutcomes :
                  LET k == Twin(out'.arg)
                      c0 == [pc |-> "voice", cfg |-> k,
                             active |-> isBackgroundActive, status |-> NoStatus]
                      x0 == [Ctx(Cur) EXCEPT !.p.calls[i] = c0]
                      x1 == IF startVoiceDetection(SettingsTable[k], vOut)
                            THEN AttachVoice(x0, i) ELSE x0
                      x == MotionPhase(x1, i)
                  IN  /\ x.dstatus = detectionStatus'
                      /\ x.toasts = out'.toasts
                      /\ <<x.p.sref, x.p.mref, x.p.vref>> = refs'
                      /\ x.p.listeners = listeners' /\ x.p.streams = streams'
                      /\ \A j \in Slots :
                           ~Forgotten(x.p, j)
                             => /\ x.p.engines[j] = engines'[j]
                                /\ calls'[j] = IF j = i
                                               THEN [x.p.calls[j] EXCEPT !.cfg = Twin(@)]
                                               ELSE x.p.calls[j]
        /\ (out'.op = "motionPerm" /\ out'.slot = i)
             => LET x0 == [Ctx(Cur) EXCEPT !.p.calls[i].cfg = Twin(@)]
                    x1 == IF out'.arg = "granted" THEN AttachMotion(x0, i)
                          ELSE IF out'.arg = "denied"
                               THEN [x0 EXCEPT !.toasts = Append(@, "Motion Access Denied")]
                               ELSE x0
                    x == CameraPhase(x1, i)
                IN  /\ x.dstatus = detectionStatus'
                    /\ x.toasts = out'.toasts
                    /\ <<x.p.sref, x.p.mref, x.p.vref>> = refs'
                    /\ x.p.listeners = listeners'
        /\ (out'.op = "result" /\ out'.slot = i)
             => out'.fired = onresultFires(SettingsTable[Twin(calls[i].cfg)], out'.arg)
        /\ (out'.op = "end" /\ out'.slot = i)
             => (engines'[i].timer = RestartDelay
                   <=> calls[i].active /\ SettingsTable[Twin(calls[i].cfg)].voiceEnabled) ]_vars

\* "please help me" was said to a session of voiceSensitivity 10 and to one
\* of voiceSensitivity 70, and both invoked the callback
C30_Witness ==
  /\ out.op = "result" /\ out.fired = 1
  /\ calls[out.slot].cfg = 10
  /\ SettingsTable[10].voiceSensitivity = 10
  /\ \E j \in Slots :
        /\ calls[j].cfg = 9
        /\ SettingsTable[9].voiceSensitivity = 70
        /\ engines[j].results = <<PleaseHelpMe>>
  /\ [SettingsTable[9] EXCEPT !.voiceSensitivity = 10] = SettingsTable[10]
  /\ detectionStatus.voice

\* C31: on a host that gates motion access, a start call with motion
\* enabled requests the grant and attaches nothing; a listener becomes
\* attached only in the step in which that call's request resolves to
\* "granted"; when the request is denied or fails no listener is attached,
\* the call goes on (nothing is thrown), detectionStatus.motion is set to
\* false, and a denial is reported as "Motion Access Denied".
C31_GrantBeforeAttach ==
  [][ \A i \in Slots :
        /\ (motionGated /\ out'.op = "start" /\ out'.slot = i /\ out'.arg # Null
              /\ SettingsTable[out'.arg].motionEnabled)
             => /\ calls'[i].pc = "motionPerm"
                /\ ~listeners'[i].attached
                /\ motionListenerRef' = motionListenerRef
        /\ (motionGated /\ ~listeners[i].attached /\ listeners'[i].attached)
             => out'.op = "motionPerm" /\ out'.slot = i /\ out'.arg = "granted"
        /\ (out'.op = "motionPerm" /\ out'.slot = i /\ out'.arg # "granted")
             => /\ ~listeners'[i].attached
                /\ motionListenerRef' = motionListenerRef
                /\ calls'[i].pc \notin {"motionPerm", "rejected"}
                /\ ~detectionStatus'.motion
                /\ out'.arg = "denied"
                     => \E n \in 1..Len(out'.toasts) :
                          out'.toasts[n] = "Motion Access Denied" ]_vars

\* the grant was denied to a call of a running session: nothing is attached
C31_Witness ==
  /\ motionGated /\ isBackgroundActive
  /\ out.op = "motionPerm" /\ out.arg = "denied"
  /\ out.toasts[1] = "Motion Access Denied"
  /\ Attached = {} /\ motionListenerRef = Null
  /\ ~detectionStatus.motion

\* C32: after stopBackgroundDetection and until the next start call
\* (isBackgroundActive is false) no step invokes the callback.
C32_SilentAfterStop ==
  [][ ~isBackgroundActive => out'.fired = 0 ]_vars

\* the step ends the call of slot i: it was made or resumed in this step and
\* is suspended no longer
Completes(i) ==
  /\ out'.slot = i
  /\ out'.op \in {"start", "motionPerm", "camera", "notif"}
  /\ (out'.op = "start" => out'.arg # Null)
  /\ calls'[i].pc \notin {"motionPerm", "camera", "notif"}

\* C33: a start call with settings present sets isBackgroundActive to true
\* in its first step, whatever its channels do; the step in which a call
\* completes emits "Background Detection Active"; and isBackgroundActive
\* becomes false only in a step of stopBackgroundDetection.
C33_ActiveAndNotice ==
  [][ /\ (out'.op = "start" /\ out'.arg # Null) => isBackgroundActive'
      /\ \A i \in Slots :
            Completes(i)
              => \E n \in 1..Len(out'.toasts) :
                   out'.toasts[n] = "Background Detection Active"
      /\ (isBackgroundActive /\ ~isBackgroundActive')
           => out'.op \in {"stop", "unmount"} ]_vars

\* C34: a press accepted while no countdown is running and emergencyMode is
\* false starts a countdown at 3 with a timer of its own; each tick of a
\* timer counts down by one, and the tick that reaches 0 invokes onEmergency
\* exactly once and clears the timer and the countdown, no other tick
\* invokes it; a press while emergencyMode is true invokes nothing and
\* starts nothing; and at most one countdown timer exists at any time.
C34_SosCountdown ==
  [][ /\ (out'.op = "press" /\ countdown = NoCountdown /\ ~emergencyMode)
           => /\ countdown' = CountFrom
              /\ Len(timers') = Len(timers) + 1
              /\ timers'[Len(timers')].count = CountFrom
              /\ out'.fired = 0
      /\ (out'.op = "press" /\ emergencyMode)
           => out'.fired = 0 /\ timers' = timers /\ countdown' = countdown
      /\ out'.op = "countdown"
           => LET n == out'.slot
              IN  IF timers[n].count = 1
                  THEN /\ out'.fired = 1
                       /\ Len(timers') = Len(timers) - 1
                       /\ ~timers[n].orphan => countdown' = NoCountdown
                  ELSE /\ out'.fired = 0
                       /\ timers'[n].count = timers[n].count - 1
                       /\ ~timers[n].orphan => countdown' = timers[n].count - 1
      /\ Len(timers') <= 1 ]_vars

====
